---- MODULE Spec2Model ----
(***************************************************************************)
(* The tool-invocation loop of crewAI (src/src/crewai/tools/tool_usage.py):*)
(* one ToolUsage instance bound to one task and one tools handler.  The    *)
(* agent submits a request text; ToolUsage.parse coerces it into a         *)
(* ToolCalling (an external, fallible step) and ToolUsage.use resolves the *)
(* tool, checks for a repeated call, reads the cache, runs the tool (an    *)
(* external, fallible step) and formats the text handed back to the agent. *)
(*                                                                         *)
(* A text is modelled as the sequence of its parts: the tool's output or a *)
(* localized message, then the slices appended to it.                      *)
(***************************************************************************)
EXTENDS Integers, Sequences, FiniteSets, TLC

(* ---------------------------------------------------------------- bounds *)

\* The number of invocations (parse then use) the agent makes on the instance.
MaxInvocations == 4

(* ------------------------------------------------------ program constants *)

InitialRunAttempts == 1
DefaultMaxParsingAttempts == 3
DefaultRememberFormatAfterUsages == 3
BiggerMaxParsingAttempts == 2
BiggerRememberFormatAfterUsages == 4

(* ------------------------------------------------------- localized texts *)

TASK_REPEATED_USAGE == "errors.task_repeated_usage"
TOOL_USAGE_EXCEPTION == "errors.tool_usage_exception"
TOOL_USAGE_ERROR == "errors.tool_usage_error"
FORMAT_SLICE == "slice.format(tool_names)"
TOOLS_SLICE == "slice.tools(tools, tool_names)"
FINAL_ANSWER_FORMAT == "slice.final_answer_format"
TOOL_NOT_FOUND == "Tool not found."

(* ------------------------------------------------------------ the inputs *)

\* The request texts the agent submits.
ToolStrings == {"Action: s", "Action: c"}

\* A tool name is a sequence of characters.
\* The tools bound to the instance (self.tools), by name.
tools == << <<"S">>, <<"c", " ">> >>

\* The tool names a coerced ToolCalling may carry.
RequestedNames == { <<" ", "s">>, <<"C">>, <<"x">> }

\* An argument mapping is the set of its (key, value) pairs.
ArgumentMappings == { {}, {<<"q", "1">>} }

\* What a tool's _run may return: a text, the empty text included.
Outputs == {"", "out"}

NoCalling == [kind |-> "None", tool_name |-> <<>>, arguments |-> {}, message |-> <<>>]

ToolCalling(name, args) ==
    [kind |-> "ToolCalling", tool_name |-> name, arguments |-> args, message |-> <<>>]

ToolUsageErrorException(msg) ==
    [kind |-> "ToolUsageErrorException", tool_name |-> <<>>, arguments |-> {},
     message |-> msg]

ToolCallings == { ToolCalling(n, a) : n \in RequestedNames, a \in ArgumentMappings }

(* ------------------------------------------------------------- the state *)

VARIABLES
    tasks,                        \* the Task objects: their fields
    execs,                        \* the calls of Task.execute, in the order made
    main,                         \* the call the caller's thread is in, 0 if none
    run_attempts,                 \* self._run_attempts
    max_parsing_attempts,         \* self._max_parsing_attempts
    remeber_format_after_usages,  \* self._remeber_format_after_usages
    last_used_tool,               \* self.tools_handler.last_used_tool
    cache,                        \* self.tools_handler.cache: a set of entries
    used_tools,                   \* self.task.used_tools
    pc,                           \* where the current invocation stands
    tool_string,                  \* the request text of the current invocation
    calling,                      \* what parse returned
    depth,                        \* the frames of use() on the stack
    returned,                     \* the text use() returned, <<>> before it returns
    outcome,                      \* how the current invocation ended
    invocations,                  \* the invocations started so far
    coercions_ok,                 \* this invocation: coercions that succeeded
    coercion_failures,            \* this invocation: coercions that raised
    runs,                         \* this invocation: calls of tool._run
    run_failures,                 \* this invocation: calls of tool._run that raised
    cache_reads,                  \* this invocation: calls of cache.read
    selected,                     \* this invocation: the tool _select_tool returned, 0 for none
    attempts_at_start,            \* run_attempts when the invocation started
    used_tools_at_start,          \* used_tools when the invocation started
    ledger_at_start,              \* last_used_tool when the invocation started
    prev_calling,                 \* what parse returned in the invocation before
    prev_outcome                  \* how the invocation before ended

tool_usage_vars == << run_attempts, max_parsing_attempts, remeber_format_after_usages,
                      last_used_tool, cache, used_tools, pc, tool_string, calling, depth,
                      returned, outcome, invocations, coercions_ok, coercion_failures, runs,
                      run_failures, cache_reads, selected, attempts_at_start,
                      used_tools_at_start, ledger_at_start, prev_calling, prev_outcome >>

task_vars == << tasks, execs, main >>

vars == << tool_usage_vars, task_vars >>

(* ---------------------------------------------------- str.lower, str.strip *)

LowerChar(c) ==
    CASE c = "S" -> "s"
      [] c = "C" -> "c"
      [] c = "X" -> "x"
      [] OTHER -> c

lower(s) == [i \in 1..Len(s) |-> LowerChar(s[i])]

RECURSIVE lstrip(_)
lstrip(s) == IF s # <<>> /\ Head(s) = " " THEN lstrip(Tail(s)) ELSE s

RECURSIVE rstrip(_)
rstrip(s) ==
    IF s # <<>> /\ s[Len(s)] = " " THEN rstrip(SubSeq(s, 1, Len(s) - 1)) ELSE s

strip(s) == rstrip(lstrip(s))

(* ------------------------------------------------------- tools handler *)

\* cache.read(tool, input): the cached output, or None.
CacheRead(c, tool, input) ==
    IF \E e \in c : e.tool = tool /\ e.input = input
    THEN [found |-> TRUE,
          output |-> (CHOOSE e \in c : e.tool = tool /\ e.input = input).output]
    ELSE [found |-> FALSE, output |-> ""]

\* cache.add(tool, input, output)
CacheAdd(c, tool, input, output) ==
    { e \in c : ~(e.tool = tool /\ e.input = input) }
        \cup { [tool |-> tool, input |-> input, output |-> output] }

\* on_tool_use(calling, output): the handler records the call as the last used
\* tool and stores its output in the cache.
OnToolUse(c, output) ==
    /\ last_used_tool' = c
    /\ cache' = CacheAdd(cache, c.tool_name, c.arguments, output)

\* Python's truth value of what cache.read returned: None and "" are false.
Truthy(r) == r.found /\ r.output # ""

(* ------------------------------------------------------------ ToolUsage *)

\* _select_tool: the index of the first bound tool whose name matches, 0 when it raises.
SelectToolNoLower(tool_name) ==
    IF \E i \in 1..Len(tools) : strip(tools[i]) = strip(tool_name)
    THEN CHOOSE i \in 1..Len(tools) :
            /\ strip(tools[i]) = strip(tool_name)
            /\ \A j \in 1..(i - 1) : strip(tools[j]) # strip(tool_name)
    ELSE 0

SelectTool(tool_name) ==
    IF \E i \in 1..Len(tools) : strip(lower(tools[i])) = strip(lower(tool_name))
    THEN CHOOSE i \in 1..Len(tools) :
            /\ strip(lower(tools[i])) = strip(lower(tool_name))
            /\ \A j \in 1..(i - 1) : strip(lower(tools[j])) # strip(lower(tool_name))
    ELSE 0

\* _check_tool_repeated_usage
CheckToolRepeatedUsageNameOnly(c, last) ==
    /\ last.kind # "None"
    /\ c.tool_name = last.tool_name

CheckToolRepeatedUsage(c, last) ==
    /\ last.kind # "None"
    /\ c.tool_name = last.tool_name
    /\ c.arguments = last.arguments

\* _should_remember_format, on the counter _format_result has just incremented.
ShouldRememberFormatBeforeIncrement(used, cadence) == (used - 1) % cadence = 0

ShouldRememberFormat(used, cadence) == used % cadence = 0

\* _remember_format
RememberFormat(result) == Append(result, TOOLS_SLICE)

\* _format_result's return value; used is task.used_tools after its increment.
FormatResult(result, used, cadence) ==
    IF ShouldRememberFormat(used, cadence) THEN RememberFormat(result) ELSE result

\* _tool_calling: whether the coercion failure that has brought the counter to
\* attempts is the last one.
ParsingAttemptsExhaustedOneLate(attempts, ceiling) == attempts > ceiling + 1

ParsingAttemptsExhausted(attempts, ceiling) == attempts > ceiling

\* _use: whether the run failure that has brought the counter to attempts is the
\* last one.
RunAttemptsExhaustedOneLate(attempts, ceiling) == attempts > ceiling + 1

RunAttemptsExhausted(attempts, ceiling) == attempts > ceiling

\* The message of the marker _tool_calling returns when it gives up.
ParsingErrorMessageNoHint == <<TOOL_USAGE_ERROR>>

ParsingErrorMessage == <<TOOL_USAGE_ERROR, FORMAT_SLICE>>

\* The text _use returns when it gives up.
RunErrorMessage == <<TOOL_USAGE_EXCEPTION, FORMAT_SLICE>>

\* The text the outermost use() returns when the frame at depth d returns text:
\* every frame above it came back from _use and appends the final-answer hint.
RECURSIVE Unwind(_, _)
Unwind(text, d) ==
    IF d = 0 THEN text ELSE Unwind(Append(text, FINAL_ANSWER_FORMAT), d - 1)

(* ======================================================================= *)
(* Task (src/src/crewai/task.py): construction, execute and _execute.      *)
(*                                                                         *)
(* Three tasks: t1 and t2 declare no prerequisites, t3 declares            *)
(* context = [t1, t2].  One caller thread has constructed the tasks and    *)
(* calls execute on them, one call at a time and any task any number of    *)
(* times; a task built with async_execution runs _execute on a thread of   *)
(* its own, so executions of one task may overlap.  The agent run, the     *)
(* coercion of the Instructor and the file write are external steps that   *)
(* return or raise.                                                        *)
(*                                                                         *)
(* An execution is the frame of one call of execute: its arguments, its    *)
(* locals, what it has handed to its caller, and counts of the calls it    *)
(* has made.  The frame of a call that has ended is kept for one step and  *)
(* is gone after it; a thread that has ended is one value of the thread    *)
(* field.                                                                  *)
(* ======================================================================= *)

(* ---------------------------------------------------------------- bounds *)

\* The number of calls of Task.execute the caller makes.
MaxExecutions == 3

(* ---------------------------------------------------------------- inputs *)

TaskIds == {"t1", "t2", "t3"}

\* The context argument of the constructor.
DeclaredContext(t) == IF t = "t3" THEN <<"t1", "t2">> ELSE <<>>

NoAgent == "None"

\* Agent.tools of the agents at hand.
AgentTools(agent) == IF agent = "researcher" THEN <<"search">> ELSE <<>>

\* The texts agent.execute_task returns for task t.
RawOutputs(t) ==
    IF t = "t1" THEN {"r1"} ELSE IF t = "t2" THEN {"r2", "r3"} ELSE {"r4"}

\* The context argument of execute left out.
NoContext == <<>>

\* The tools argument of execute left out.
NoTools == [given |-> FALSE, value |-> <<>>]

\* The arguments of execute(agent, context, tools) on task t: t1 is called with
\* an agent, with an empty list of tools or with a list of tools, t3 with a
\* context.
ExecuteArguments(t) ==
    {[agent |-> NoAgent, context |-> NoContext, tool_list |-> NoTools]}
    \cup
    IF t = "t1"
    THEN {[agent |-> "writer", context |-> NoContext, tool_list |-> NoTools],
          [agent |-> NoAgent, context |-> NoContext,
           tool_list |-> [given |-> TRUE, value |-> <<>>]],
          [agent |-> NoAgent, context |-> NoContext,
           tool_list |-> [given |-> TRUE, value |-> <<"calculator">>]]}
    ELSE IF t = "t3"
    THEN {[agent |-> NoAgent, context |-> <<"ctx">>, tool_list |-> NoTools]}
    ELSE {}

(* ---------------------------------------------------------------- values *)

\* A value _export_output or a file holds: the form it has and the raw text it
\* was made of.
Value(form, raw) == [form |-> form, of |-> raw]

NoValue == Value("None", "None")

\* TaskOutput(description=..., exported_output=..., raw_output=...)
TaskOutput(description, exported_output, raw_output) ==
    [description |-> description, exported_output |-> exported_output,
     raw_output |-> raw_output]

NoOutput == TaskOutput("None", NoValue, "None")

\* "\n".join(parts)
RECURSIVE Join(_)
Join(parts) ==
    IF Len(parts) = 0 THEN <<>>
    ELSE IF Len(parts) = 1 THEN <<parts[1]>>
    ELSE <<parts[1], "\n">> \o Join(Tail(parts))

\* instructor.to_pydantic(), instructor.to_json() and the object's .json()
ToPydantic(raw) == Value("pydantic", raw)

ToJson(raw) == Value("json", raw)

PydanticJson(object) == Value("compact json", object.of)

(* ----------------------------------------------------------- construction *)

\* The arguments of Task(...) for task t: t1 is synchronous and varies in its
\* agent and tools, t2 is asynchronous and has a callback, t3 varies in its
\* mode, output types and output file, or has no agent.
TaskArguments(t) ==
    [agent : IF t = "t1" THEN {NoAgent, "researcher"} ELSE {"researcher"},
     async_execution : IF t = "t3" THEN BOOLEAN ELSE {t = "t2"},
     output_json : IF t = "t3" THEN BOOLEAN ELSE {FALSE},
     output_pydantic : IF t = "t3" THEN BOOLEAN ELSE {FALSE},
     output_file : IF t = "t3" THEN BOOLEAN ELSE {FALSE},
     callback : {t = "t2"},
     tool_list : IF t = "t1" THEN {<<>>, <<"scraper">>} ELSE {<<>>},
     context : {DeclaredContext(t)}]
    \cup
    IF t = "t3"
    THEN {[agent |-> NoAgent, async_execution |-> FALSE, output_json |-> FALSE,
           output_pydantic |-> FALSE, output_file |-> FALSE, callback |-> FALSE,
           tool_list |-> <<>>, context |-> DeclaredContext(t)]}
    ELSE {}

\* check_tools: the tools of the task once the validator has run.
CheckToolsAlwaysExtends(tool_list, agent) == tool_list \o AgentTools(agent)

CheckTools(tool_list, agent) ==
    IF tool_list = <<>> /\ agent # NoAgent /\ AgentTools(agent) # <<>>
    THEN tool_list \o AgentTools(agent)
    ELSE tool_list

\* check_output: whether the validator raises.
CheckOutputNeverRaises(output_json, output_pydantic) == FALSE

CheckOutputRaises(output_json, output_pydantic) ==
    Cardinality({type \in {<<"json", output_json>>, <<"pydantic", output_pydantic>>} :
                    type[2]}) > 1

\* The fields of a task: used_tools, thread and output at their defaults, and
\* the tools the constructor was given.
Fields(state, arguments) ==
    [state |-> state, agent |-> arguments.agent,
     async_execution |-> arguments.async_execution,
     output_json |-> arguments.output_json,
     output_pydantic |-> arguments.output_pydantic,
     output_file |-> arguments.output_file, callback |-> arguments.callback,
     tool_list |-> arguments.tool_list, given_tools |-> arguments.tool_list,
     context |-> arguments.context, output |-> NoOutput, thread |-> 0]

\* Task(**arguments): the object the constructor returns once check_tools and
\* check_output have run, or the arguments it has rejected.
Task(arguments) ==
    IF CheckOutputRaises(arguments.output_json, arguments.output_pydantic)
    THEN Fields("invalid", arguments)
    ELSE [Fields("built", arguments) EXCEPT
             !.tool_list = CheckTools(arguments.tool_list, arguments.agent)]

\* No task: what the tool-invocation loop is checked with.
NoTask ==
    Fields("none", [agent |-> NoAgent, async_execution |-> FALSE,
                    output_json |-> FALSE, output_pydantic |-> FALSE,
                    output_file |-> FALSE, callback |-> FALSE, tool_list |-> <<>>,
                    context |-> <<>>])

(* ------------------------------------------------------------ executions *)

\* What execute has handed to its caller.
Pending == [kind |-> "pending", value |-> NoValue, error |-> "None"]

ReturnedValue(value) == [kind |-> "returned", value |-> value, error |-> "None"]

RaisedErrorLost(error) == [kind |-> "pending", value |-> NoValue, error |-> "None"]

RaisedError(error) == [kind |-> "raised", value |-> NoValue, error |-> error]

\* agent = agent or self.agent
AgentOrBoundFirst(agent, own) == IF own # NoAgent THEN own ELSE agent

AgentOr(agent, own) == IF agent # NoAgent THEN agent ELSE own

\* tools = tools or self.tools
ToolsOr(argument, own) ==
    IF argument.given /\ argument.value # <<>> THEN argument.value ELSE own

\* The arguments of agent.execute_task before it is called.
NoCall == [task |-> "None", context |-> NoContext, tool_list |-> <<>>]

\* One call of execute(agent, context, tools) on task t, as it enters.
Execution(t, agent, context, tools_argument) ==
    [task |-> t, agent_argument |-> agent, context_argument |-> context,
     tools_argument |-> tools_argument, agent |-> NoAgent, at |-> "execute",
     i |-> 1, parts |-> <<>>, context |-> NoContext, tool_list |-> <<>>,
     result |-> Pending, error |-> "None", agent_calls |-> 0,
     called_with |-> NoCall, raw_output |-> "None", exported_output |-> NoValue,
     saves |-> 0, saved |-> NoValue, callback_calls |-> 0,
     callback_argument |-> NoOutput]

\* _export_output's return value.
ExportOutputRawForJson(task, raw) ==
    IF task.output_json THEN [form |-> "text", of |-> raw]
    ELSE IF task.output_pydantic THEN [form |-> "pydantic", of |-> raw]
    ELSE [form |-> "text", of |-> raw]

ExportOutput(task, raw) ==
    IF task.output_pydantic THEN ToPydantic(raw)
    ELSE IF task.output_json THEN ToJson(raw)
    ELSE Value("text", raw)

\* The content _export_output hands to _save_file.
FileContentAsExported(task, exported) == exported

FileContent(task, exported) ==
    IF ~task.output_pydantic THEN exported ELSE PydanticJson(exported)

\* Whether _export_output calls the Instructor.
Coerces(task) == task.output_pydantic \/ task.output_json

(* ------------------------------------------------------------------ Init *)

ToolUsageInit ==
    /\ run_attempts = InitialRunAttempts
    /\ \E bigger \in BOOLEAN :
          /\ max_parsing_attempts =
                IF bigger THEN BiggerMaxParsingAttempts ELSE DefaultMaxParsingAttempts
          /\ remeber_format_after_usages =
                IF bigger THEN BiggerRememberFormatAfterUsages
                ELSE DefaultRememberFormatAfterUsages
    /\ last_used_tool = NoCalling
    /\ cache = {}
    /\ used_tools = 0
    /\ pc = "idle"
    /\ tool_string = ""
    /\ calling = NoCalling
    /\ depth = 0
    /\ returned = <<>>
    /\ outcome = "none"
    /\ invocations = 0
    /\ coercions_ok = 0
    /\ coercion_failures = 0
    /\ runs = 0
    /\ run_failures = 0
    /\ cache_reads = 0
    /\ selected = 0
    /\ attempts_at_start = InitialRunAttempts
    /\ used_tools_at_start = 0
    /\ ledger_at_start = NoCalling
    /\ prev_calling = NoCalling
    /\ prev_outcome = "none"

Init ==
    /\ ToolUsageInit
    /\ tasks = [t \in TaskIds |-> NoTask]
    /\ execs = <<>>
    /\ main = 0

config == << max_parsing_attempts, remeber_format_after_usages >>

history == << attempts_at_start, used_tools_at_start, ledger_at_start, prev_calling,
             prev_outcome >>

(* --------------------------------------------------------------- actions *)

\* The agent submits a request text, with the attempt counter started afresh.
InvokeResetsAttempts(text) ==
    /\ pc \in {"idle", "done"}
    /\ invocations < MaxInvocations
    /\ invocations' = invocations + 1
    /\ tool_string' = text
    /\ pc' = "parse"
    /\ calling' = NoCalling
    /\ depth' = 0
    /\ returned' = <<>>
    /\ outcome' = "none"
    /\ coercions_ok' = 0
    /\ coercion_failures' = 0
    /\ runs' = 0
    /\ run_failures' = 0
    /\ cache_reads' = 0
    /\ selected' = 0
    /\ run_attempts' = InitialRunAttempts
    /\ attempts_at_start' = InitialRunAttempts
    /\ used_tools_at_start' = used_tools
    /\ ledger_at_start' = last_used_tool
    /\ prev_calling' = calling
    /\ prev_outcome' = outcome
    /\ UNCHANGED << config, last_used_tool, cache, used_tools >>
    /\ UNCHANGED task_vars

\* The agent submits a request text: parse(tool_string) is entered.
Invoke(text) ==
    /\ pc \in {"idle", "done"}
    /\ invocations < MaxInvocations
    /\ invocations' = invocations + 1
    /\ tool_string' = text
    /\ pc' = "parse"
    /\ calling' = NoCalling
    /\ depth' = 0
    /\ returned' = <<>>
    /\ outcome' = "none"
    /\ coercions_ok' = 0
    /\ coercion_failures' = 0
    /\ runs' = 0
    /\ run_failures' = 0
    /\ cache_reads' = 0
    /\ selected' = 0
    /\ attempts_at_start' = run_attempts
    /\ used_tools_at_start' = used_tools
    /\ ledger_at_start' = last_used_tool
    /\ prev_calling' = calling
    /\ prev_outcome' = outcome
    /\ UNCHANGED << run_attempts, config, last_used_tool, cache, used_tools >>
    /\ UNCHANGED task_vars

\* _tool_calling: the coercion of tool_string succeeds and parse returns c.
ToolCallingOk(c) ==
    /\ pc = "parse"
    /\ calling' = c
    /\ coercions_ok' = coercions_ok + 1
    /\ pc' = "use"
    /\ UNCHANGED << run_attempts, config, last_used_tool, cache, used_tools,
                    tool_string, depth, returned, outcome, invocations,
                    coercion_failures, runs, run_failures, cache_reads, selected,
                    history >>
    /\ UNCHANGED task_vars

\* _tool_calling: the coercion raises.
ToolCallingFail ==
    /\ pc = "parse"
    /\ run_attempts' = run_attempts + 1
    /\ coercion_failures' = coercion_failures + 1
    /\ IF ParsingAttemptsExhausted(run_attempts', max_parsing_attempts)
       THEN /\ calling' = ToolUsageErrorException(ParsingErrorMessage)
            /\ pc' = "use"
       ELSE /\ calling' = calling
            /\ pc' = "parse"
    /\ UNCHANGED << config, last_used_tool, cache, used_tools, tool_string, depth,
                    returned, outcome, invocations, coercions_ok, runs, run_failures,
                    cache_reads, selected, history >>
    /\ UNCHANGED task_vars

\* use(calling, tool_string) up to its return or to the call of tool._run.
Use ==
    /\ pc = "use"
    /\ depth' = depth + 1
    /\ IF calling.kind = "ToolUsageErrorException"
       THEN /\ returned' = Unwind(calling.message, depth)
            /\ outcome' = "parse_error"
            /\ pc' = "done"
            /\ UNCHANGED << used_tools, cache_reads, selected >>
       ELSE IF SelectTool(calling.tool_name) = 0
       THEN /\ returned' = Unwind(<<TOOL_NOT_FOUND>>, depth)
            /\ outcome' = "not_found"
            /\ pc' = "done"
            /\ UNCHANGED << used_tools, cache_reads, selected >>
       ELSE IF CheckToolRepeatedUsage(calling, last_used_tool)
       THEN /\ used_tools' = used_tools + 1
            /\ returned' = Unwind(FormatResult(<<TASK_REPEATED_USAGE>>, used_tools',
                                               remeber_format_after_usages), depth')
            /\ outcome' = "repeated"
            /\ pc' = "done"
            /\ selected' = SelectTool(calling.tool_name)
            /\ UNCHANGED cache_reads
       ELSE LET result == CacheRead(cache, calling.tool_name, calling.arguments)
            IN  /\ cache_reads' = cache_reads + 1
                /\ selected' = SelectTool(calling.tool_name)
                /\ IF Truthy(result)
                   THEN /\ used_tools' = used_tools + 1
                        /\ returned' = Unwind(FormatResult(<<result.output>>, used_tools',
                                                 remeber_format_after_usages), depth')
                        /\ outcome' = "cache_hit"
                        /\ pc' = "done"
                   ELSE /\ pc' = "run"
                        /\ UNCHANGED << used_tools, returned, outcome >>
    /\ UNCHANGED << run_attempts, config, last_used_tool, cache, tool_string, calling,
                    invocations, coercions_ok, coercion_failures, runs, run_failures,
                    history >>
    /\ UNCHANGED task_vars

\* tool._run returns output: _use records the call, formats and returns.
RunOk(output) ==
    /\ pc = "run"
    /\ runs' = runs + 1
    /\ OnToolUse(calling, output)
    /\ used_tools' = used_tools + 1
    /\ returned' = Unwind(FormatResult(<<output>>, used_tools',
                                       remeber_format_after_usages), depth)
    /\ outcome' = "executed"
    /\ pc' = "done"
    /\ UNCHANGED << run_attempts, config, tool_string, calling, depth, invocations,
                    coercions_ok, coercion_failures, run_failures, cache_reads,
                    selected, history >>
    /\ UNCHANGED task_vars

\* tool._run raises, with the call recorded all the same.
RunFailRecordsTheCall ==
    /\ pc = "run"
    /\ runs' = runs + 1
    /\ run_failures' = run_failures + 1
    /\ run_attempts' = run_attempts + 1
    /\ last_used_tool' = calling
    /\ IF RunAttemptsExhausted(run_attempts', max_parsing_attempts)
       THEN /\ returned' = Unwind(RunErrorMessage, depth)
            /\ outcome' = "exhausted"
            /\ pc' = "done"
       ELSE /\ pc' = "use"
            /\ UNCHANGED << returned, outcome >>
    /\ UNCHANGED << config, cache, used_tools, tool_string, calling, depth,
                    invocations, coercions_ok, coercion_failures, cache_reads,
                    selected, history >>
    /\ UNCHANGED task_vars

\* tool._run raises: _use gives up, or calls use(calling, tool_string) again.
RunFail ==
    /\ pc = "run"
    /\ runs' = runs + 1
    /\ run_failures' = run_failures + 1
    /\ run_attempts' = run_attempts + 1
    /\ IF RunAttemptsExhausted(run_attempts', max_parsing_attempts)
       THEN /\ returned' = Unwind(RunErrorMessage, depth)
            /\ outcome' = "exhausted"
            /\ pc' = "done"
       ELSE /\ pc' = "use"
            /\ UNCHANGED << returned, outcome >>
    /\ UNCHANGED << config, last_used_tool, cache, used_tools, tool_string, calling,
                    depth, invocations, coercions_ok, coercion_failures, cache_reads,
                    selected, history >>
    /\ UNCHANGED task_vars

Next ==
    \/ \E text \in ToolStrings : Invoke(text)
    \/ \E c \in ToolCallings : ToolCallingOk(c)
    \/ ToolCallingFail
    \/ Use
    \/ \E output \in Outputs : RunOk(output)
    \/ RunFail

Spec == Init /\ [][Next]_vars

(* ======================================================================= *)
(* ToolUsage with a telemetry sink that may fail.                          *)
(*                                                                         *)
(* Under Spec every call of self._telemetry returns.  The actions below    *)
(* are the same handlers when a call of self._telemetry raises: the call   *)
(* of tool_repeated_usage stands inside the try of lines 94-108, the calls *)
(* of tool_usage_error (lines 123 and 241) and of tool_usage (line 137)    *)
(* stand outside every try, so what they raise leaves parse or use and     *)
(* reaches the agent: the invocation ends with outcome "raised" and        *)
(* without a text.                                                         *)
(* ======================================================================= *)

\* _tool_calling: the coercion raises for the last time and tool_usage_error
\* raises in the handler (line 241); parse raises.
ToolCallingFailTelemetryRaises ==
    /\ pc = "parse"
    /\ run_attempts' = run_attempts + 1
    /\ coercion_failures' = coercion_failures + 1
    /\ ParsingAttemptsExhausted(run_attempts', max_parsing_attempts)
    /\ outcome' = "raised"
    /\ pc' = "done"
    /\ UNCHANGED << config, last_used_tool, cache, used_tools, tool_string, calling,
                    depth, returned, invocations, coercions_ok, runs, run_failures,
                    cache_reads, selected, history >>
    /\ UNCHANGED task_vars

\* use and _use on a repeated call when tool_repeated_usage raises (line 102):
\* `except Exception: pass` (lines 107-108) swallows it and _use goes on to the
\* cache read of line 110; on a hit tool_usage (line 137) returns or raises.
UseRepeatedUsageTelemetryRaises(tool_usage_raises) ==
    /\ pc = "use"
    /\ calling.kind = "ToolCalling"
    /\ SelectTool(calling.tool_name) # 0
    /\ CheckToolRepeatedUsage(calling, last_used_tool)
    /\ depth' = depth + 1
    /\ selected' = SelectTool(calling.tool_name)
    /\ cache_reads' = cache_reads + 1
    /\ LET result == CacheRead(cache, calling.tool_name, calling.arguments)
       IN  IF ~Truthy(result)
           THEN /\ ~tool_usage_raises
                /\ pc' = "run"
                /\ UNCHANGED << used_tools, returned, outcome >>
           ELSE IF tool_usage_raises
           THEN /\ outcome' = "raised"
                /\ pc' = "done"
                /\ UNCHANGED << used_tools, returned >>
           ELSE /\ used_tools' = used_tools + 1
                /\ returned' = Unwind(FormatResult(<<result.output>>, used_tools',
                                         remeber_format_after_usages), depth')
                /\ outcome' = "cache_hit"
                /\ pc' = "done"
    /\ UNCHANGED << run_attempts, config, last_used_tool, cache, tool_string, calling,
                    invocations, coercions_ok, coercion_failures, runs, run_failures,
                    history >>
    /\ UNCHANGED task_vars

\* use and _use on a call that is not repeated and is in the cache, when
\* tool_usage raises (line 137): before _format_result, so nothing is counted.
UseToolUsageTelemetryRaises ==
    /\ pc = "use"
    /\ calling.kind = "ToolCalling"
    /\ SelectTool(calling.tool_name) # 0
    /\ ~CheckToolRepeatedUsage(calling, last_used_tool)
    /\ Truthy(CacheRead(cache, calling.tool_name, calling.arguments))
    /\ depth' = depth + 1
    /\ selected' = SelectTool(calling.tool_name)
    /\ cache_reads' = cache_reads + 1
    /\ outcome' = "raised"
    /\ pc' = "done"
    /\ UNCHANGED << run_attempts, config, last_used_tool, cache, used_tools,
                    tool_string, calling, returned, invocations, coercions_ok,
                    coercion_failures, runs, run_failures, history >>
    /\ UNCHANGED task_vars

\* tool._run returns output and on_tool_use records the call (line 134); then
\* tool_usage raises (line 137), before _format_result.
RunOkTelemetryRaises(output) ==
    /\ pc = "run"
    /\ runs' = runs + 1
    /\ OnToolUse(calling, output)
    /\ outcome' = "raised"
    /\ pc' = "done"
    /\ UNCHANGED << run_attempts, config, used_tools, tool_string, calling, depth,
                    returned, invocations, coercions_ok, coercion_failures,
                    run_failures, cache_reads, selected, history >>
    /\ UNCHANGED task_vars

\* tool._run raises for the last time and tool_usage_error raises in the
\* handler (line 123), before the message is made.
RunFailTelemetryRaises ==
    /\ pc = "run"
    /\ runs' = runs + 1
    /\ run_failures' = run_failures + 1
    /\ run_attempts' = run_attempts + 1
    /\ RunAttemptsExhausted(run_attempts', max_parsing_attempts)
    /\ outcome' = "raised"
    /\ pc' = "done"
    /\ UNCHANGED << config, last_used_tool, cache, used_tools, tool_string, calling,
                    depth, returned, invocations, coercions_ok, coercion_failures,
                    cache_reads, selected, history >>
    /\ UNCHANGED task_vars

\* Every call of the telemetry sink returns (Next) or raises.
TelemetryNext ==
    \/ Next
    \/ ToolCallingFailTelemetryRaises
    \/ \E tool_usage_raises \in BOOLEAN :
          UseRepeatedUsageTelemetryRaises(tool_usage_raises)
    \/ UseToolUsageTelemetryRaises
    \/ \E output \in Outputs : RunOkTelemetryRaises(output)
    \/ RunFailTelemetryRaises

TelemetrySpec == Init /\ [][TelemetryNext]_vars

(* ======================================================================= *)
(* Task: the actions.                                                      *)
(* ======================================================================= *)

\* Whether the execution runs on a thread of its own: the task is asynchronous
\* and execute has started the thread.
OnThread(e) ==
    tasks[e.task].async_execution /\ e.at \in {"agent", "callback"}

\* The frame of a call that has ended, once its locals are gone.
Gone == [Execution("None", NoAgent, NoContext, NoTools) EXCEPT !.at = "gone"]

\* The executions at the next step: the frames of the calls that have ended are
\* gone.
Live ==
    [x \in 1..Len(execs) |->
        IF execs[x].at \in {"done", "died", "raised"} THEN Gone
        ELSE execs[x]]

\* The executions with id put in place, a new one at the end.
Put(id, e) == IF id > Len(execs) THEN Append(Live, e) ELSE [Live EXCEPT ![id] = e]

\* The thread field of a task whose last thread has ended.
EndedThread == -1

\* The tasks once the execution has left _execute: the thread it ran on, if it
\* ran on one, has ended.
Left(id, e, fields) ==
    IF OnThread(e) /\ fields[e.task].thread = id
    THEN [fields EXCEPT ![e.task].thread = EndedThread]
    ELSE fields

\* An exception leaves the execution: on the caller's thread it leaves execute,
\* on a thread of its own it ends the thread.
Raise(id, e, error) ==
    /\ tasks' = Left(id, e, tasks)
    /\ IF OnThread(e)
       THEN /\ execs' = Put(id, [e EXCEPT !.at = "died", !.error = error])
            /\ UNCHANGED main
       ELSE /\ execs' = Put(id, [e EXCEPT !.at = "raised", !.error = error,
                                          !.result = RaisedError(error)])
            /\ main' = 0

\* _execute returns exported_output, with the fields of the tasks as it
\* leaves them: to the caller of execute, or to the thread.
Return(id, e, fields) ==
    /\ tasks' = Left(id, e, fields)
    /\ IF OnThread(e)
       THEN /\ execs' = Put(id, [e EXCEPT !.at = "done"])
            /\ UNCHANGED main
       ELSE /\ execs' = Put(id, [e EXCEPT !.at = "done",
                                          !.result = ReturnedValue(e.exported_output)])
            /\ main' = 0

\* What execute hands to its caller when it has started _execute.
ResultAtStartWaits(async_execution) == Pending

ResultAtStart(async_execution) ==
    IF async_execution THEN ReturnedValue(NoValue) ELSE Pending

\* execute from `tools = tools or self.tools` on: the thread is created and
\* started and execute returns, or _execute is entered on the caller's thread.
Start(id, e, assembled) ==
    LET task == tasks[e.task]
        started == [e EXCEPT !.at = "agent", !.context = assembled, !.parts = <<>>,
                             !.tool_list = ToolsOr(e.tools_argument, task.tool_list),
                             !.result = ResultAtStart(task.async_execution)]
    IN  /\ execs' = Put(id, started)
        /\ tasks' = IF task.async_execution
                    THEN [tasks EXCEPT ![e.task].thread = id] ELSE tasks
        /\ main' = IF task.async_execution THEN 0 ELSE id

\* execute(agent, context, tools) up to the first join, to the start of the
\* thread or to the call of agent.execute_task.
Execute(t, agent, context, tools_argument) ==
    /\ main = 0
    /\ tasks[t].state = "built"
    /\ Len(execs) < MaxExecutions
    /\ LET id == Len(execs) + 1
           e == [Execution(t, agent, context, tools_argument) EXCEPT
                    !.agent = AgentOr(agent, tasks[t].agent)]
       IN  IF e.agent = NoAgent
           THEN Raise(id, e, "no agent")
           ELSE IF tasks[t].context # <<>>
           THEN /\ execs' = Put(id, [e EXCEPT !.at = "context"])
                /\ main' = id
                /\ UNCHANGED tasks
           ELSE Start(id, e, context)
    /\ UNCHANGED tool_usage_vars

\* task.thread.join() returns: the thread has ended.
JoinReturnsAtOnce(thread) == TRUE

JoinReturns(thread) == thread = EndedThread

\* The order in which execute goes through self.context.
ReversedOrder(declared) == [i \in 1..Len(declared) |-> declared[Len(declared) + 1 - i]]

ContextOrder(declared) == declared

\* One turn of the loop over self.context: the join of an asynchronous
\* prerequisite, then the read of its output; after the last one, the rest of
\* execute.
AssembleContext(id) ==
    /\ execs[id].at = "context"
    /\ LET e == execs[id]
           p == ContextOrder(tasks[e.task].context)[e.i]
           prerequisite == tasks[p]
       IN  IF prerequisite.async_execution /\ prerequisite.thread = 0
           THEN Raise(id, e, "AttributeError")
           ELSE /\ prerequisite.async_execution => JoinReturns(prerequisite.thread)
                /\ IF prerequisite.output = NoOutput
                   THEN Raise(id, e, "AttributeError")
                   ELSE LET read ==
                              [e EXCEPT
                                 !.i = @ + 1,
                                 !.parts = Append(@, prerequisite.output.raw_output)]
                        IN  IF e.i = Len(tasks[e.task].context)
                            THEN Start(id, read, Join(read.parts))
                            ELSE /\ execs' = Put(id, read)
                                 /\ UNCHANGED << tasks, main >>
    /\ UNCHANGED tool_usage_vars

\* The execution once _execute has called
\* agent.execute_task(task=task, context=context, tools=tools).
Called(e) ==
    [e EXCEPT !.agent_calls = @ + 1,
              !.called_with = [task |-> e.task, context |-> e.context,
                               tool_list |-> e.tool_list]]

\* agent.execute_task raises.
AgentRaises(id) ==
    /\ execs[id].at = "agent"
    /\ Raise(id, Called(execs[id]), "agent error")
    /\ UNCHANGED tool_usage_vars

\* _execute with self.output assigned before the file is written.
AgentReturnsStoresBeforeSave(id, raw, coerced, written) ==
    /\ execs[id].at = "agent"
    /\ LET e == [Called(execs[id]) EXCEPT !.raw_output = raw]
           task == tasks[e.task]
           exported == ExportOutput(task, raw)
           saved == IF task.output_file
                    THEN [e EXCEPT !.exported_output = exported, !.saves = @ + 1,
                                   !.saved = FileContent(task, exported)]
                    ELSE [e EXCEPT !.exported_output = exported]
           output == TaskOutput(e.task, exported, raw)
           stored == [tasks EXCEPT ![e.task].output = output]
       IN  IF Coerces(task) /\ ~coerced
           THEN Raise(id, e, "coercion error")
           ELSE IF task.output_file /\ ~written
           THEN /\ tasks' = Left(id, saved, stored)
                /\ IF OnThread(saved)
                   THEN /\ execs' = Put(id, [saved EXCEPT !.at = "died",
                                                          !.error = "io error"])
                        /\ UNCHANGED main
                   ELSE /\ execs' = Put(id, [saved EXCEPT
                                                !.at = "raised", !.error = "io error",
                                                !.result = RaisedError("io error")])
                        /\ main' = 0
           ELSE IF task.callback
           THEN /\ tasks' = stored
                /\ execs' = Put(id, [saved EXCEPT !.at = "callback"])
                /\ UNCHANGED main
           ELSE Return(id, saved, stored)
    /\ UNCHANGED tool_usage_vars

\* _execute from the return of agent.execute_task with raw: _export_output with
\* its coercion and its file write, the assignment of self.output, and the
\* return when there is no callback.
AgentReturns(id, raw, coerced, written) ==
    /\ execs[id].at = "agent"
    /\ LET e == [Called(execs[id]) EXCEPT !.raw_output = raw]
           task == tasks[e.task]
           exported == ExportOutput(task, raw)
           saved == IF task.output_file
                    THEN [e EXCEPT !.exported_output = exported, !.saves = @ + 1,
                                   !.saved = FileContent(task, exported)]
                    ELSE [e EXCEPT !.exported_output = exported]
           output == TaskOutput(e.task, exported, raw)
       IN  IF Coerces(task) /\ ~coerced
           THEN Raise(id, e, "coercion error")
           ELSE IF task.output_file /\ ~written
           THEN Raise(id, saved, "io error")
           ELSE IF task.callback
           THEN /\ tasks' = [tasks EXCEPT ![e.task].output = output]
                /\ execs' = Put(id, [saved EXCEPT !.at = "callback"])
                /\ UNCHANGED main
           ELSE Return(id, saved, [tasks EXCEPT ![e.task].output = output])
    /\ UNCHANGED tool_usage_vars

\* self.callback(self.output), then the return of _execute.
Callback(id) ==
    /\ execs[id].at = "callback"
    /\ Return(id, [execs[id] EXCEPT !.callback_calls = @ + 1,
                                    !.callback_argument = tasks[execs[id].task].output],
              tasks)
    /\ UNCHANGED tool_usage_vars

\* The outcomes of an external step: it succeeds or raises, if it is taken.
Outcomes(taken) == IF taken THEN BOOLEAN ELSE {TRUE}

\* The executions that stand at a place.
At(place) == {id \in DOMAIN execs : execs[id].at = place}

TaskNext ==
    \/ \E t \in TaskIds : \E arguments \in ExecuteArguments(t) :
          Execute(t, arguments.agent, arguments.context, arguments.tool_list)
    \/ \E id \in At("context") : AssembleContext(id)
    \/ \E id \in At("agent") : AgentRaises(id)
    \/ \E id \in At("agent") : \E raw \in RawOutputs(execs[id].task) :
          \E coerced \in Outcomes(Coerces(tasks[execs[id].task])) :
             \E written \in Outcomes(tasks[execs[id].task].output_file) :
                AgentReturns(id, raw, coerced, written)
    \/ \E id \in At("callback") : Callback(id)

\* The state once the three tasks have been constructed.
TaskInit ==
    /\ ToolUsageInit
    /\ max_parsing_attempts = DefaultMaxParsingAttempts
    /\ tasks \in
         {built \in [TaskIds -> UNION {{Task(arguments) :
                                          arguments \in TaskArguments(t)} :
                                       t \in TaskIds}] :
            \A t \in TaskIds :
               \E arguments \in TaskArguments(t) : built[t] = Task(arguments)}
    /\ execs = <<>>
    /\ main = 0

TaskSpec == TaskInit /\ [][TaskNext]_vars

(* ----------------------------------------------------- helpers of claims *)

HasPart(text, part) == \E i \in 1..Len(text) : text[i] = part

\* use has returned its text to the agent.
Returned == pc = "done"

\* The call equals the one the tools handler held when the invocation started.
SameAsLedger ==
    /\ ledger_at_start.kind = "ToolCalling"
    /\ calling.tool_name = ledger_at_start.tool_name
    /\ calling.arguments = ledger_at_start.arguments

\* Some bound tool has the requested name, case and outer whitespace set aside.
NameIsBound(name) ==
    \E i \in 1..Len(tools) : lower(strip(tools[i])) = lower(strip(name))

(* -------------------------------------------------------------------- C1 *)

\* C1 (as stated): whenever two consecutive invocations resolve to the same
\* ToolCalling of a bound tool, the second one never calls the tool's _run and
\* returns the repeated-usage message.
C1_ConsecutiveIdenticalIsSuppressed ==
    (/\ Returned
     /\ calling.kind = "ToolCalling"
     /\ NameIsBound(calling.tool_name)
     /\ prev_calling = calling)
    => (runs = 0 /\ outcome = "repeated" /\ returned[1] = TASK_REPEATED_USAGE)

\* C1 (amended): an invocation of a bound tool is suppressed exactly when its
\* ToolCalling equals the tools handler's last_used_tool, the last call whose run
\* succeeded: it then never reads the cache nor calls _run and returns the
\* repeated-usage message.  In particular the invocation right after a real
\* execution of the same call is suppressed, and an invocation with different
\* arguments right after a repeat takes the normal path (cache read, then run).
C1_RepeatOfLastUsedToolIsSuppressed ==
    /\ (pc = "run" => ~SameAsLedger)
    /\ (Returned /\ calling.kind = "ToolCalling" /\ NameIsBound(calling.tool_name))
       => /\ SameAsLedger
             => /\ runs = 0
                /\ cache_reads = 0
                /\ outcome = "repeated"
                /\ returned[1] = TASK_REPEATED_USAGE
                /\ last_used_tool = ledger_at_start
          /\ ~SameAsLedger
             => /\ outcome \in {"executed", "cache_hit", "exhausted"}
                /\ cache_reads >= 1
                /\ returned[1] # TASK_REPEATED_USAGE
          /\ (prev_outcome = "executed" /\ prev_calling = calling)
             => outcome = "repeated"
          /\ (/\ prev_outcome = "repeated"
              /\ prev_calling.tool_name = calling.tool_name
              /\ prev_calling.arguments # calling.arguments)
             => outcome # "repeated"

\* C1 witness: a call is run, repeated (and suppressed), and then made with
\* different arguments, which runs the tool.
C1_Witness ==
    /\ Returned
    /\ outcome = "executed"
    /\ runs = 1
    /\ prev_outcome = "repeated"
    /\ prev_calling.tool_name = calling.tool_name
    /\ prev_calling.arguments # calling.arguments

(* -------------------------------------------------------------------- C2 *)

\* C2 (as stated): whenever the cache holds a value for (tool name, arguments),
\* an invocation with that key that is not a repeat of the last used tool does
\* not call the tool's _run and returns the cached value, whatever the value.
C2_CachedValueIsReturnedWithoutRun ==
    /\ pc = "run" => ~CacheRead(cache, calling.tool_name, calling.arguments).found
    /\ (Returned /\ outcome = "cache_hit")
       => returned[1] = CacheRead(cache, calling.tool_name, calling.arguments).output

(* -------------------------------------------------------------------- C3 *)

\* C3: an invocation makes at most max_parsing_attempts calls of _run; when _run
\* raised on every one of them the invocation has returned the terminal text,
\* which holds the exhaustion message and the tool-names format hint, and no
\* call of _run follows it.
C3_FailingRunGivesUpWithinCeiling ==
    /\ runs <= max_parsing_attempts
    /\ outcome = "exhausted" => pc = "done"
    /\ (Returned /\ runs > 0 /\ run_failures = runs)
       => /\ outcome = "exhausted"
          /\ returned[1] = TOOL_USAGE_EXCEPTION
          /\ returned[2] = FORMAT_SLICE
          /\ run_attempts > max_parsing_attempts
    /\ (pc \in {"use", "run"} /\ run_failures > 0)
       => run_attempts <= max_parsing_attempts

\* C3 witness: a fresh instance whose tool raised max_parsing_attempts times.
C3_Witness ==
    /\ Returned
    /\ outcome = "exhausted"
    /\ coercion_failures = 0
    /\ runs = max_parsing_attempts
    /\ run_failures = runs

(* -------------------------------------------------------------------- C4 *)

\* C4 (as stated): every call of _run that follows a failed one is preceded by
\* a new coercion of the request text: when _run is about to be called, the
\* coercions that succeeded in this invocation are one more than the runs that
\* failed.
C4_RetryCoercesAgain ==
    pc = "run" => coercions_ok = run_failures + 1

(* -------------------------------------------------------------------- C5 *)

\* C5: a failed coercion increments the attempt counter and parse tries again
\* only while the counter is within the ceiling; once it exceeds the ceiling
\* parse returns the failure marker, whose message is the localized error and
\* the tool-names format hint, and use returns that message as its text without
\* selecting a tool, reading the cache or running anything.
C5_ParseFailureIsReturnedAsText ==
    /\ pc = "parse" => run_attempts = attempts_at_start + coercion_failures
    /\ (pc = "parse" /\ coercion_failures > 0) => run_attempts <= max_parsing_attempts
    /\ calling.kind = "ToolUsageErrorException"
       => /\ run_attempts > max_parsing_attempts
          /\ coercion_failures >= 1
          /\ coercions_ok = 0
          /\ run_attempts = attempts_at_start + coercion_failures
          /\ calling.message = <<TOOL_USAGE_ERROR, FORMAT_SLICE>>
          /\ pc \in {"use", "done"}
    /\ (Returned /\ calling.kind = "ToolUsageErrorException")
       => /\ outcome = "parse_error"
          /\ returned = calling.message
          /\ selected = 0
          /\ cache_reads = 0
          /\ runs = 0
    /\ (Returned /\ calling.kind = "ToolCalling") => outcome # "parse_error"

\* C5 witness: a fresh instance whose coercion failed max_parsing_attempts times.
C5_Witness ==
    /\ Returned
    /\ outcome = "parse_error"
    /\ attempts_at_start = InitialRunAttempts
    /\ coercion_failures = max_parsing_attempts

(* -------------------------------------------------------------------- C6 *)

\* C6: coercion failures and run failures are counted by the same counter:
\* within one invocation their total never exceeds max_parsing_attempts, the
\* failure that brings the total to max_parsing_attempts is terminal whichever
\* kind it is, and after p coercion failures at most max_parsing_attempts - p
\* calls of _run are made.
C6_FailuresShareOneBudget ==
    /\ run_attempts = attempts_at_start + coercion_failures + run_failures
    /\ coercion_failures + run_failures <= max_parsing_attempts
    /\ coercion_failures + run_failures = max_parsing_attempts
       => \/ calling.kind = "ToolUsageErrorException"
          \/ outcome = "exhausted"
    /\ runs <= max_parsing_attempts - coercion_failures

\* C6 witness: failures of both kinds used the budget up, and the last one, a
\* failed run, ended the invocation.
C6_Witness ==
    /\ Returned
    /\ outcome = "exhausted"
    /\ coercion_failures >= 1
    /\ run_failures >= 1
    /\ coercion_failures + run_failures = max_parsing_attempts

(* -------------------------------------------------------------------- C7 *)

\* C7 (as stated): every invocation, whatever its outcome, passes through the
\* formatter and increments task.used_tools by exactly one.
C7_EveryOutcomeIsCounted ==
    Returned => used_tools = used_tools_at_start + 1

(* -------------------------------------------------------------------- C8 *)

\* C8: the text of the invocation that brings task.used_tools to N holds the
\* tools reminder if and only if N is a multiple of
\* remeber_format_after_usages; a text that was not counted holds none.
C8_ReminderExactlyOnCadence ==
    Returned
    => /\ used_tools \in {used_tools_at_start, used_tools_at_start + 1}
       /\ used_tools = used_tools_at_start + 1
          => (HasPart(returned, TOOLS_SLICE)
                <=> used_tools % remeber_format_after_usages = 0)
       /\ used_tools = used_tools_at_start => ~HasPart(returned, TOOLS_SLICE)

\* C8 witness: the reminder is in the text that brings the counter to the
\* cadence, after a sequence that also held an invocation that was not counted.
C8_Witness ==
    /\ Returned
    /\ used_tools = used_tools_at_start + 1
    /\ used_tools = remeber_format_after_usages
    /\ invocations > used_tools
    /\ HasPart(returned, TOOLS_SLICE)

(* -------------------------------------------------------------------- C9 *)

\* C9 (as stated): the text use returns always ends with the final-answer
\* format hint, after the formatted result.
C9_AlwaysEndsWithFinalAnswerHint ==
    Returned
    => /\ Len(returned) >= 2
       /\ returned[Len(returned)] = FINAL_ANSWER_FORMAT

(* ------------------------------------------------------------------- C10 *)

\* C10: use selects the bound tool whose lower-cased, trimmed name equals the
\* lower-cased, trimmed requested name; when there is none it returns the
\* not-found message as its text, reads no cache, runs nothing and counts
\* nothing.
C10_UnknownToolIsReturnedAsText ==
    (Returned /\ calling.kind = "ToolCalling")
    => /\ outcome = "not_found" <=> ~NameIsBound(calling.tool_name)
       /\ outcome = "not_found"
          => /\ returned = <<TOOL_NOT_FOUND>>
             /\ selected = 0
             /\ cache_reads = 0
             /\ runs = 0
             /\ used_tools = used_tools_at_start
             /\ last_used_tool = ledger_at_start
       /\ outcome # "not_found"
          => /\ selected \in 1..Len(tools)
             /\ lower(strip(tools[selected])) = lower(strip(calling.tool_name))

\* C10 witness: a name that no bound tool has is answered with the message,
\* right after a name that differs from its tool's in case and whitespace ran.
C10_Witness ==
    /\ Returned
    /\ outcome = "not_found"
    /\ calling.tool_name = <<"x">>
    /\ prev_outcome = "executed"
    /\ prev_calling.tool_name = <<" ", "s">>

(* ======================================================================= *)
(* Task: the claims.                                                       *)
(* ======================================================================= *)

\* The execution started on the thread is still in _execute.
Running(thread) ==
    thread \in DOMAIN execs /\ execs[thread].at \in {"agent", "callback"}

\* The execution takes a turn of the loop over self.context in this step.
TakesTurn(id) == execs[id].at = "context" /\ execs'[id] # execs[id]

\* The prerequisite the execution is about to join and read.
Prerequisite(id) == tasks[execs[id].task].context[execs[id].i]

(* ------------------------------------------------------------------- C11 *)

\* C11: execute goes past an asynchronous prerequisite that has been started
\* only when the thread in the prerequisite's thread field has ended, and the
\* text it then takes is the raw output the prerequisite's output field holds;
\* with the last prerequisite read, the context handed on is the join of the
\* texts taken.
C11_PrerequisiteIsReadAfterItsThreadEnded ==
    [][\A id \in DOMAIN execs :
          (/\ TakesTurn(id)
           /\ tasks[Prerequisite(id)].async_execution
           /\ tasks[Prerequisite(id)].thread # 0)
          => /\ ~Running(tasks[Prerequisite(id)].thread)
             /\ execs'[id].at = "context"
                => execs'[id].parts =
                      Append(execs[id].parts, tasks[Prerequisite(id)].output.raw_output)
             /\ execs'[id].at = "agent"
                => execs'[id].context =
                      Join(Append(execs[id].parts,
                                  tasks[Prerequisite(id)].output.raw_output))]_vars

\* C11 witness: t3 has been started with the raw outputs of t1 and of the
\* asynchronous t2, whose thread has ended.
C11_Witness ==
    \E id \in DOMAIN execs :
       /\ execs[id].task = "t3"
       /\ execs[id].at = "agent"
       /\ tasks["t2"].async_execution
       /\ tasks["t2"].thread = EndedThread
       /\ execs[id].context = <<"r1", "\n", tasks["t2"].output.raw_output>>

(* ------------------------------------------------------------------- C12 *)

\* The texts the execution holds once it has taken the turn for the next
\* declared prerequisite.
Taken(id) ==
    LET declared == tasks[execs[id].task].context
    IN  Append(execs[id].parts,
               tasks[declared[Len(execs[id].parts) + 1]].output.raw_output)

\* C12: for a task with declared prerequisites, the texts execute takes are the
\* raw outputs of the prerequisites in the declared order, whenever each of
\* them ended, and the context handed to the agent is their join by newlines,
\* whatever context the caller has supplied.
C12_ContextIsJoinInDeclaredOrder ==
    /\ [](\A id \in DOMAIN execs :
             (/\ execs[id].at \in {"agent", "callback", "done", "died"}
              /\ tasks[execs[id].task].context # <<>>)
             => Len(execs[id].context) = 2 * Len(tasks[execs[id].task].context) - 1)
    /\ [][\A id \in DOMAIN execs :
             (TakesTurn(id) /\ execs'[id].at \in {"context", "agent"})
             => /\ execs'[id].at = "context" => execs'[id].parts = Taken(id)
                /\ execs'[id].at = "agent"
                   => /\ Len(Taken(id)) = Len(tasks[execs[id].task].context)
                      /\ execs'[id].context = Join(Taken(id))]_vars

\* C12 witness: t3, called with a context of the caller, has been started with
\* the raw output of t1, a newline, and the raw output of t2.
C12_Witness ==
    \E id \in DOMAIN execs :
       /\ execs[id].task = "t3"
       /\ execs[id].at = "agent"
       /\ execs[id].context_argument = <<"ctx">>
       /\ execs[id].context = <<"r1", "\n", "r3">>

(* ------------------------------------------------------------------- C13 *)

\* The execution has been started: the thread runs or has run _execute.
Started(e) == e.at \in {"agent", "callback", "done", "died"}

\* The execution of the task goes through _execute's assignment of self.output
\* in this step.
Materializes(id, t) ==
    /\ execs[id].task = t
    /\ execs[id].at = "agent"
    /\ execs'[id].at \in {"callback", "done"}

\* C13: once execute has started the thread of an asynchronous task it has
\* returned None to its caller, who is free, while the agent run is still to
\* come; the agent is called once, with the task, the context execute has
\* assembled and the tools it has resolved; and the output field of a task
\* changes only in a step of _execute on that task.
C13_AsynchronousExecuteReturnsAtOnce ==
    /\ [](\A id \in DOMAIN execs :
             (Started(execs[id]) /\ tasks[execs[id].task].async_execution)
             => /\ execs[id].result = ReturnedValue(NoValue)
                /\ main # id
                /\ execs[id].agent_calls = IF execs[id].at = "agent" THEN 0 ELSE 1
                /\ execs[id].tool_list =
                      IF execs[id].tools_argument.value # <<>>
                      THEN execs[id].tools_argument.value
                      ELSE tasks[execs[id].task].tool_list
                /\ tasks[execs[id].task].context = <<>>
                   => execs[id].context = execs[id].context_argument
                /\ execs[id].agent_calls = 1
                   => execs[id].called_with =
                         [task |-> execs[id].task, context |-> execs[id].context,
                          tool_list |-> execs[id].tool_list])
    /\ [][\A t \in TaskIds :
             tasks'[t].output # tasks[t].output
             => \E id \in DOMAIN execs : Materializes(id, t)]_vars

\* C13 witness: execute has returned None for the asynchronous t2 and the
\* caller is free, while the agent has not been called and t2 has no output.
C13_Witness ==
    \E id \in DOMAIN execs :
       /\ execs[id].task = "t2"
       /\ tasks["t2"].async_execution
       /\ execs[id].at = "agent"
       /\ execs[id].agent_calls = 0
       /\ execs[id].result = ReturnedValue(NoValue)
       /\ main = 0
       /\ tasks["t2"].output = NoOutput

(* ------------------------------------------------------------------- C14 *)

\* C14: an execution of a task with a callback that has returned from _execute
\* has invoked the callback once, with the TaskOutput it has itself stored in
\* the output field (the task's description, its raw output, its exported
\* output); before its assignment of self.output, and for a task without a
\* callback, the callback has not been invoked.
C14_CallbackReceivesItsOwnOutput ==
    \A id \in DOMAIN execs :
       /\ execs[id].at \in {"agent", "callback"} => execs[id].callback_calls = 0
       /\ execs[id].at = "done"
          => IF tasks[execs[id].task].callback
             THEN /\ execs[id].callback_calls = 1
                  /\ execs[id].callback_argument =
                        TaskOutput(execs[id].task, execs[id].exported_output,
                                   execs[id].raw_output)
             ELSE execs[id].callback_calls = 0

(* ------------------------------------------------------------------- C15 *)

\* C15, as stated: every execution whose file write has failed has raised the
\* failure to the caller of execute.
C15_WriteFailureReachesTheCaller ==
    \A id \in DOMAIN execs :
       execs[id].error = "io error" => execs[id].result = RaisedError("io error")

\* C15, amended: a failed file write is not caught by the task, which neither
\* assigns self.output nor invokes the callback after it; in synchronous mode
\* the failure leaves execute and reaches its caller; in asynchronous mode
\* execute has returned None before, and the failure ends the thread.
C15_WriteFailureIsNotCaught ==
    \A id \in DOMAIN execs :
       execs[id].error = "io error"
       => /\ tasks[execs[id].task].output_file
          /\ execs[id].saves = 1
          /\ execs[id].callback_calls = 0
          /\ IF tasks[execs[id].task].async_execution
             THEN /\ execs[id].at = "died"
                  /\ execs[id].result = ReturnedValue(NoValue)
             ELSE /\ execs[id].at = "raised"
                  /\ execs[id].result.kind = "raised"
                  /\ execs[id].result.error = "io error"
                  /\ main = 0

\* C15 witness: the file write of the asynchronous t3 has failed on its thread,
\* after execute had returned None.
C15_Witness ==
    \E id \in DOMAIN execs :
       /\ execs[id].task = "t3"
       /\ tasks["t3"].async_execution
       /\ execs[id].error = "io error"
       /\ execs[id].at = "died"
       /\ execs[id].result = ReturnedValue(NoValue)

(* ------------------------------------------------------------------- C16 *)

\* The execution has come out of _export_output with a value.
Exported(e) == e.at \in {"callback", "done"} \/ e.error = "io error"

\* C16: the value _export_output returns is the object coerced from the raw
\* text when the task declares output_pydantic, the JSON text of the coerced
\* value when it declares output_json, and the raw text itself when it declares
\* neither; a synchronous execute returns that value; and the TaskOutput that
\* _execute assigns holds that value and, as raw_output, the text the agent
\* returned.
C16_ExportedFormFollowsOutputType ==
    /\ [](\A id \in DOMAIN execs :
             Exported(execs[id])
             => /\ execs[id].exported_output.of = execs[id].raw_output
                /\ execs[id].exported_output.form =
                      IF tasks[execs[id].task].output_pydantic THEN "pydantic"
                      ELSE IF tasks[execs[id].task].output_json THEN "json"
                      ELSE "text"
                /\ (execs[id].at = "done" /\ ~tasks[execs[id].task].async_execution)
                   => /\ execs[id].result.kind = "returned"
                      /\ execs[id].result.value = execs[id].exported_output)
    /\ [][\A t \in TaskIds : \A id \in DOMAIN execs :
             Materializes(id, t)
             => /\ execs'[id].raw_output \in RawOutputs(t)
                /\ tasks'[t].output.description = t
                /\ tasks'[t].output.raw_output = execs'[id].raw_output
                /\ tasks'[t].output.exported_output = execs'[id].exported_output]_vars

\* C16 witness: the synchronous t3, with output_json, has returned the JSON
\* text made of the raw text r4, and its output holds r4 as raw output.
C16_Witness ==
    \E id \in DOMAIN execs :
       /\ execs[id].task = "t3"
       /\ execs[id].at = "done"
       /\ tasks["t3"].output_json
       /\ execs[id].result.value = [form |-> "json", of |-> "r4"]
       /\ tasks["t3"].output.raw_output = "r4"
       /\ tasks["t3"].output.exported_output = [form |-> "json", of |-> "r4"]

(* ------------------------------------------------------------------- C17 *)

\* C17: an execution that has come out of _export_output has called _save_file
\* once when the task declares an output file and not at all when it declares
\* none; the content is the exported value for raw text and for JSON, and the
\* coerced object's own JSON text for output_pydantic; no execution calls
\* _save_file before that or twice.
C17_FileIsWrittenOnceWithExportedContent ==
    \A id \in DOMAIN execs :
       /\ execs[id].saves <= 1
       /\ execs[id].at \in {"execute", "context", "agent"} => execs[id].saves = 0
       /\ execs[id].saves = 1 => tasks[execs[id].task].output_file
       /\ Exported(execs[id])
          => /\ execs[id].saves = 1 <=> tasks[execs[id].task].output_file
             /\ execs[id].saved =
                   IF ~tasks[execs[id].task].output_file THEN NoValue
                   ELSE IF tasks[execs[id].task].output_pydantic
                   THEN [form |-> "compact json", of |-> execs[id].raw_output]
                   ELSE execs[id].exported_output

\* C17 witness: t3, with output_pydantic and an output file, has returned from
\* _execute having written the object's own JSON text once.
C17_Witness ==
    \E id \in DOMAIN execs :
       /\ execs[id].task = "t3"
       /\ execs[id].at = "done"
       /\ tasks["t3"].output_pydantic
       /\ tasks["t3"].output_file
       /\ execs[id].saves = 1
       /\ execs[id].exported_output = [form |-> "pydantic", of |-> "r4"]
       /\ execs[id].saved = [form |-> "compact json", of |-> "r4"]

(* ------------------------------------------------------------------- C18 *)

\* The execution has called agent.execute_task.
HasCalled(e) == e.agent_calls = 1

\* C18, as stated: execute hands the agent the tools argument whenever one is
\* given, and the tools of the task otherwise.
C18_GivenToolsArePassed ==
    \A id \in DOMAIN execs :
       HasCalled(execs[id])
       => execs[id].called_with.tool_list =
             IF execs[id].tools_argument.given THEN execs[id].tools_argument.value
             ELSE tasks[execs[id].task].tool_list

\* C18, amended: a task built without tools of its own and with an agent has
\* the tools of that agent; a task built with tools of its own has exactly
\* those; a task built with neither has none; and execute hands the agent the
\* tools argument when it is given and not empty, and the tools of the task
\* otherwise, also when the argument is an empty list.
C18_ToolsOfTheTaskAndOfTheCall ==
    /\ \A t \in TaskIds :
          tasks[t].state = "built"
          => /\ (tasks[t].given_tools = <<>> /\ tasks[t].agent # NoAgent)
                => tasks[t].tool_list = AgentTools(tasks[t].agent)
             /\ tasks[t].given_tools # <<>>
                => tasks[t].tool_list = tasks[t].given_tools
             /\ (tasks[t].given_tools = <<>> /\ tasks[t].agent = NoAgent)
                => tasks[t].tool_list = <<>>
    /\ \A id \in DOMAIN execs :
          HasCalled(execs[id])
          => execs[id].called_with.tool_list =
                IF execs[id].tools_argument.given
                   /\ execs[id].tools_argument.value # <<>>
                THEN execs[id].tools_argument.value
                ELSE tasks[execs[id].task].tool_list

\* C18 witness: t1, built without tools and with the researcher, holds the
\* researcher's tools, and execute, given an empty list, has handed them to the
\* agent.
C18_Witness ==
    \E id \in DOMAIN execs :
       /\ execs[id].task = "t1"
       /\ tasks["t1"].given_tools = <<>>
       /\ tasks["t1"].agent = "researcher"
       /\ tasks["t1"].tool_list = <<"search">>
       /\ execs[id].tools_argument = [given |-> TRUE, value |-> <<>>]
       /\ HasCalled(execs[id])
       /\ execs[id].called_with.tool_list = <<"search">>

(* ------------------------------------------------------------------- C19 *)

\* C19: execute runs with the agent argument when one is given and with the
\* agent of the task otherwise; when there is neither it raises the error of
\* the missing agent to its caller, having called no agent, joined no thread,
\* read no prerequisite, written no file and invoked no callback, and the step
\* leaves every task, its thread and its output as they were.
C19_MissingAgentRaisesAndDoesNothingElse ==
    /\ [](\A id \in DOMAIN execs :
             execs[id].at # "gone"
             => /\ execs[id].agent =
                      IF execs[id].agent_argument # NoAgent
                      THEN execs[id].agent_argument
                      ELSE tasks[execs[id].task].agent
                /\ execs[id].agent # NoAgent => execs[id].error # "no agent"
                /\ execs[id].agent = NoAgent
                   => /\ execs[id].at = "raised"
                      /\ execs[id].result.kind = "raised"
                      /\ execs[id].result.error = "no agent"
                      /\ execs[id].agent_calls = 0
                      /\ execs[id].i = 1
                      /\ execs[id].parts = <<>>
                      /\ execs[id].saves = 0
                      /\ execs[id].callback_calls = 0)
    /\ [][(/\ Len(execs') > Len(execs)
           /\ execs'[Len(execs')].agent = NoAgent)
          => /\ tasks' = tasks
             /\ main' = 0]_vars

\* C19 witness: execute on t3, which has no agent and is given none, has raised
\* while the thread of its prerequisite t2 is still running.
C19_Witness ==
    \E id \in DOMAIN execs :
       /\ execs[id].task = "t3"
       /\ tasks["t3"].agent = NoAgent
       /\ execs[id].result.error = "no agent"
       /\ tasks["t1"].output # NoOutput
       /\ Running(tasks["t2"].thread)

(* ------------------------------------------------------------------- C20 *)

\* C20: Task(...) raises the validation error when it is given both
\* output_json and output_pydantic and returns a task when it is given one of
\* them or neither, so a task that exists declares at most one output type;
\* only such a task is executed.
C20_AtMostOneOutputType ==
    /\ \A t \in TaskIds :
          /\ tasks[t].state \in {"built", "invalid"}
          /\ tasks[t].state = "invalid"
             <=> (tasks[t].output_json /\ tasks[t].output_pydantic)
          /\ tasks[t].state = "built"
             => ~(tasks[t].output_json /\ tasks[t].output_pydantic)
    /\ \A id \in DOMAIN execs :
          execs[id].at # "gone" => tasks[execs[id].task].state = "built"

\* C20 witness: the arguments of t3 with both output types have been rejected,
\* while t1 and t2, with neither, exist and t2 has been executed.
C20_Witness ==
    /\ tasks["t3"].state = "invalid"
    /\ tasks["t3"].output_json
    /\ tasks["t3"].output_pydantic
    /\ tasks["t1"].state = "built"
    /\ tasks["t2"].state = "built"
    /\ tasks["t2"].output # NoOutput

(* ======================================================================= *)
(* ToolUsage: the claims on telemetry, the ledger, the hints, the counter. *)
(* ======================================================================= *)

(* ------------------------------------------------------------------- C21 *)

\* C21 (as stated): a call of the telemetry sink that fails changes nothing of
\* an invocation: use still returns its text to the agent, and a call that
\* repeats the last used tool is still suppressed: it reads no cache, runs
\* nothing, is counted once and returns the repeated-usage message.
C21_TelemetryFailureLeavesControlFlow ==
    Returned
    => /\ outcome # "raised"
       /\ returned # <<>>
       /\ (/\ calling.kind = "ToolCalling"
           /\ NameIsBound(calling.tool_name)
           /\ SameAsLedger)
          => /\ outcome = "repeated"
             /\ runs = 0
             /\ cache_reads = 0
             /\ used_tools = used_tools_at_start + 1
             /\ last_used_tool = ledger_at_start
             /\ returned[1] = TASK_REPEATED_USAGE

(* ------------------------------------------------------------------- C22 *)

\* The cache read of the current call is a miss for _use (`if not result`).
CacheMiss == ~Truthy(CacheRead(cache, calling.tool_name, calling.arguments))

\* C22: the tools handler's last_used_tool is written only by a real
\* execution.  The step that changes it is the return of tool._run on a cache
\* miss: it sets it to the executed ToolCalling, and the text use then returns
\* finds it set.  While an invocation parses, selects, reads the cache or fails
\* a run, and when it ends as a repeat suppression, a cache hit, a tool not
\* found, a parse failure or an exhausted retry, last_used_tool is what it was
\* when the invocation started.
C22_LedgerIsWrittenOnlyByARealExecution ==
    /\ [](pc \in {"parse", "use", "run"} => last_used_tool = ledger_at_start)
    /\ [](Returned
          => IF outcome = "executed"
             THEN /\ last_used_tool = calling
                  /\ last_used_tool # ledger_at_start
                  /\ runs >= 1
                  /\ runs = run_failures + 1
                  /\ returned # <<>>
             ELSE /\ outcome \in {"repeated", "cache_hit", "not_found",
                                  "parse_error", "exhausted"}
                  /\ last_used_tool = ledger_at_start)
    /\ [][last_used_tool' # last_used_tool
          => /\ pc = "run"
             /\ CacheMiss
             /\ runs' = runs + 1
             /\ run_failures' = run_failures
             /\ last_used_tool' = calling
             /\ outcome' = "executed"
             /\ returned = <<>>
             /\ returned' # <<>>]_vars

\* C22 witness: after an invocation that ended as a repeat suppression or a
\* cache hit, with the ledger still holding the call run before, an invocation
\* fails a run, retries, runs the tool and replaces the call the ledger held.
C22_Witness ==
    /\ Returned
    /\ outcome = "executed"
    /\ run_failures >= 1
    /\ ledger_at_start.kind = "ToolCalling"
    /\ last_used_tool = calling
    /\ last_used_tool # ledger_at_start
    /\ prev_outcome \in {"repeated", "cache_hit"}

(* ------------------------------------------------------------------- C23 *)

\* The number of final-answer hints the text ends with.
RECURSIVE TrailingHints(_)
TrailingHints(text) ==
    IF text # <<>> /\ text[Len(text)] = FINAL_ANSWER_FORMAT
    THEN 1 + TrailingHints(SubSeq(text, 1, Len(text) - 1))
    ELSE 0

\* C23 (as stated): the text an invocation returns ends with one final-answer
\* hint per nesting level of use: after k failed runs and a success k + 1
\* hints, after exhaustion one hint per run attempt, and exactly one hint when
\* no run failed.
C23_OneHintPerNestingLevel ==
    Returned
    => TrailingHints(returned) =
          IF run_failures = 0 THEN 1
          ELSE IF outcome = "exhausted" THEN runs
          ELSE run_failures + 1

(* ------------------------------------------------------------------- C24 *)

\* A coercion raises in this step; a run raises in this step.
CoercionFails == coercion_failures' = coercion_failures + 1

RunFails == run_failures' = run_failures + 1

\* C24: the attempt counter of the instance starts at 1, never decreases, goes
\* up by exactly one at each failed coercion and each failed run and at no
\* other step, and is not reset when an invocation starts.  Once it exceeds
\* the ceiling, a failed coercion makes parse return the failure marker at
\* once and a failed run makes _use return the exhaustion message at once: an
\* invocation that starts above the ceiling sees at most one failure and makes
\* at most one run.
C24_AttemptCounterIsNeverReset ==
    /\ [](invocations = 0 => run_attempts = InitialRunAttempts)
    /\ [](run_attempts >= InitialRunAttempts /\ run_attempts >= attempts_at_start)
    /\ [](attempts_at_start > max_parsing_attempts
          => /\ coercion_failures + run_failures <= 1
             /\ runs <= 1
             /\ (Returned /\ run_failures = 1) => outcome = "exhausted"
             /\ (Returned /\ coercion_failures = 1) => outcome = "parse_error")
    /\ [][/\ run_attempts' >= run_attempts
          /\ run_attempts' - run_attempts = (IF CoercionFails \/ RunFails THEN 1 ELSE 0)
          /\ invocations' # invocations => attempts_at_start' = run_attempts
          /\ (run_attempts > max_parsing_attempts /\ CoercionFails)
             => (pc' = "use" /\ calling'.kind = "ToolUsageErrorException")
          /\ (run_attempts > max_parsing_attempts /\ RunFails)
             => (pc' = "done" /\ outcome' = "exhausted")]_vars

\* C24 witness: an invocation that starts with the counter more than one above
\* the ceiling (earlier invocations took it there) makes one run, which fails,
\* and returns the exhaustion message without a retry.
C24_Witness ==
    /\ Returned
    /\ attempts_at_start > max_parsing_attempts + 1
    /\ outcome = "exhausted"
    /\ runs = 1
    /\ run_failures = 1
    /\ run_attempts = attempts_at_start + 1

(* ======================================================================= *)
(* Task: the claim on failed executions.                                   *)
(* ======================================================================= *)

(* ------------------------------------------------------------------- C25 *)

\* The execution fails in this step: an exception leaves execute or ends the
\* thread.
Fails(id) ==
    /\ execs'[id].at \in {"died", "raised"}
    /\ id \in DOMAIN execs => execs[id].at \notin {"died", "raised"}

\* The thread the task's thread field names has just ended by an exception.
ThreadHasFailed(t) ==
    /\ tasks[t].async_execution
    /\ tasks[t].thread = EndedThread
    /\ \E id \in DOMAIN execs : execs[id].task = t /\ execs[id].at = "died"

\* C25: the step in which an execution fails (no agent, a prerequisite without
\* output, the agent run, the coercion or the file write raises) changes the
\* output field of no task, and the execution has not invoked the callback.
\* The output field of a task changes only in the step of _execute on that
\* task that follows a returned agent run, a coercion that succeeded and a
\* file write that succeeded, and it then holds that execution's TaskOutput.
\* So a dependent task that takes its turn on a prerequisite whose thread has
\* just failed finds the field as it was before the failure: without output
\* (the read raises AttributeError), or with an output stored before.
C25_FailedExecutionLeavesOutput ==
    /\ [][\A id \in DOMAIN execs' :
             Fails(id)
             => /\ \A t \in TaskIds : tasks'[t].output = tasks[t].output
                /\ execs'[id].callback_calls = 0
                /\ execs'[id].callback_argument = NoOutput]_vars
    /\ [][\A t \in TaskIds :
             tasks'[t].output # tasks[t].output
             => \E id \in DOMAIN execs :
                   /\ Materializes(id, t)
                   /\ execs'[id].error = "None"
                   /\ execs'[id].agent_calls = 1
                   /\ execs'[id].raw_output \in RawOutputs(t)
                   /\ execs'[id].exported_output # NoValue
                   /\ tasks[t].output_file => execs'[id].saves = 1
                   /\ tasks'[t].output =
                         TaskOutput(t, execs'[id].exported_output,
                                    execs'[id].raw_output)]_vars
    /\ [][\A id \in DOMAIN execs :
             (TakesTurn(id) /\ ThreadHasFailed(Prerequisite(id)))
             => LET found == tasks[Prerequisite(id)].output
                IN  IF found = NoOutput
                    THEN /\ execs'[id].at = "raised"
                         /\ execs'[id].error = "AttributeError"
                    ELSE /\ execs'[id].at \in {"context", "agent"}
                         /\ found.description = Prerequisite(id)
                         /\ found.raw_output \in RawOutputs(Prerequisite(id))]_vars

\* C25 witness: one execution of t2 has stored its output; the agent run of
\* another execution of t2 has raised on its thread, which has ended without
\* a callback, and t2 still holds the output of the first.
C25_Witness ==
    \E id \in DOMAIN execs :
       /\ execs[id].task = "t2"
       /\ execs[id].at = "died"
       /\ execs[id].error = "agent error"
       /\ execs[id].callback_calls = 0
       /\ tasks["t2"].thread = EndedThread
       /\ tasks["t2"].output # NoOutput

====
